---------------------------- MODULE Spec2Model ----------------------------
(***************************************************************************)
(* Model of apps/expo-community/fix_pbxproj.py: a one-shot patcher that    *)
(* reads project.pbxproj, replaces every occurrence of the literal `old`   *)
(* by the literal `new`, writes the file back and reports.                 *)
(*                                                                         *)
(* Text is a sequence of one-character strings.  Indices named as in the   *)
(* source (idx, the slice bounds) are 0-based, as in Python.  The backtick *)
(* character is written "<backtick>", one element like any other.          *)
(***************************************************************************)
EXTENDS Integers, Sequences, FiniteSets

(***************************************************************************)
(* The literals of the script.                                             *)
(***************************************************************************)
\* line 10: the pattern searched for (backtick execution, unquoted result)
old ==
  <<
     "<backtick>", "\\", "\"", "$", "N", "O", "D", "E", "_", "B", "I", "N",
     "A", "R", "Y", "\\", "\"", " ", "-", "-", "p", "r", "i", "n",
     "t", " ", "\\", "\"", "r", "e", "q", "u", "i", "r", "e", "(",
     "'", "p", "a", "t", "h", "'", ")", ".", "d", "i", "r", "n",
     "a", "m", "e", "(", "r", "e", "q", "u", "i", "r", "e", ".",
     "r", "e", "s", "o", "l", "v", "e", "(", "'", "r", "e", "a",
     "c", "t", "-", "n", "a", "t", "i", "v", "e", "/", "p", "a",
     "c", "k", "a", "g", "e", ".", "j", "s", "o", "n", "'", ")",
     ")", " ", "+", " ", "'", "/", "s", "c", "r", "i", "p", "t",
     "s", "/", "r", "e", "a", "c", "t", "-", "n", "a", "t", "i",
     "v", "e", "-", "x", "c", "o", "d", "e", ".", "s", "h", "'",
     "\\", "\"", "<backtick>"
  >>

\* faulty variant of new: the pattern merely wrapped in quotes
newQuoted == <<"\"">> \o old \o <<"\"">>

\* line 13: the replacement (path stored in a variable, executed quoted)
new ==
  <<
     "R", "E", "A", "C", "T", "_", "N", "A", "T", "I", "V", "E",
     "_", "X", "C", "O", "D", "E", "_", "P", "A", "T", "H", "=",
     "$", "(", "\\", "\"", "$", "N", "O", "D", "E", "_", "B", "I",
     "N", "A", "R", "Y", "\\", "\"", " ", "-", "-", "p", "r", "i",
     "n", "t", " ", "\\", "\"", "r", "e", "q", "u", "i", "r", "e",
     "(", "'", "p", "a", "t", "h", "'", ")", ".", "d", "i", "r",
     "n", "a", "m", "e", "(", "r", "e", "q", "u", "i", "r", "e",
     ".", "r", "e", "s", "o", "l", "v", "e", "(", "'", "r", "e",
     "a", "c", "t", "-", "n", "a", "t", "i", "v", "e", "/", "p",
     "a", "c", "k", "a", "g", "e", ".", "j", "s", "o", "n", "'",
     ")", ")", " ", "+", " ", "'", "/", "s", "c", "r", "i", "p",
     "t", "s", "/", "r", "e", "a", "c", "t", "-", "n", "a", "t",
     "i", "v", "e", "-", "x", "c", "o", "d", "e", ".", "s", "h",
     "'", "\\", "\"", ")", "\\", "n", "\\", "\"", "$", "R", "E", "A",
     "C", "T", "_", "N", "A", "T", "I", "V", "E", "_", "X", "C",
     "O", "D", "E", "_", "P", "A", "T", "H", "\\", "\""
  >>

\* line 22: the marker searched for when the pattern is absent
marker ==
  <<
     "r", "e", "a", "c", "t", "-", "n", "a", "t", "i", "v", "e",
     "-", "x", "c", "o", "d", "e"
  >>

\* line 24: characters of context before and after the marker
ContextBefore == 150

ContextAfter == 200

\* line 27: sys.exit(1)
ExitFailure == 1

\* line 19 is the last statement of the success branch: the interpreter
\* exits with status 0 when the module body ends
ExitSuccess == 0

\* lines 6-7, 17-18: no try/except around open/read/write, so an OSError
\* reaches the interpreter, which prints a traceback and exits with status 1
UncaughtStatus == 1

(***************************************************************************)
(* Bounds of the model.                                                    *)
(***************************************************************************)
\* number of text pieces an initial file content is made of
MaxPieces == 3

\* number of consecutive runs of the script on the same file
MaxRuns == 2

\* length of the filler text piece
PadLen == 210

\* number of characters that reach the disk in one flush of the write buffer
FlushSize == 400

(***************************************************************************)
(* Python string operations used by the script.                            *)
(***************************************************************************)
Min(S) == CHOOSE x \in S : \A y \in S : x <= y

max(a, b) == IF a >= b THEN a ELSE b

min(a, b) == IF a <= b THEN a ELSE b

\* sub occurs in s at 0-based offset i
OccursAt(s, sub, i) ==
  /\ i >= 0
  /\ i + Len(sub) <= Len(s)
  /\ \A k \in 1..Len(sub) : s[i + k] = sub[k]

\* s.find(sub): the lowest 0-based index of an occurrence, -1 when none
find(s, sub) ==
  LET hits == {i \in 0..(Len(s) - Len(sub)) : OccursAt(s, sub, i)}
  IN  IF hits = {} THEN -1 ELSE Min(hits)

\* sub in s
In(sub, s) == \E i \in 0..(Len(s) - Len(sub)) : OccursAt(s, sub, i)

\* s[lo:hi] with Python's clamping; a negative bound counts from the end
SliceBound(n, b) == IF b < 0 THEN max(n + b, 0) ELSE min(b, n)

Slice(s, lo, hi) ==
  SubSeq(s, SliceBound(Len(s), lo) + 1, SliceBound(Len(s), hi))

\* faulty variant of replace: content.replace(new, old)
RECURSIVE replaceSwapped(_, _, _)
replaceSwapped(s, o, n) ==
  LET i == find(s, n)
  IN  IF i = -1
        THEN s
        ELSE SubSeq(s, 1, i) \o o
               \o replaceSwapped(SubSeq(s, i + Len(n) + 1, Len(s)), o, n)

\* faulty variant of replace: content.replace(old, new, 1)
replaceFirst(s, o, n) ==
  LET i == find(s, o)
  IN  IF i = -1
        THEN s
        ELSE SubSeq(s, 1, i) \o n \o SubSeq(s, i + Len(o) + 1, Len(s))

\* s.replace(o, n): the non-overlapping occurrences of o, found left to
\* right, each replaced by n
RECURSIVE replace(_, _, _)
replace(s, o, n) ==
  LET i == find(s, o)
  IN  IF i = -1
        THEN s
        ELSE SubSeq(s, 1, i) \o n
               \o replace(SubSeq(s, i + Len(o) + 1, Len(s)), o, n)

\* repr(s) of a str: quoted with ' unless s holds a ' and no ", backslash,
\* the quote in use and control characters escaped
ReprQuote(s) ==
  IF In(<<"'">>, s) /\ ~In(<<"\"">>, s) THEN "\"" ELSE "'"

ReprChar(c, q) ==
  IF c = "\\" THEN <<"\\", "\\">>
  ELSE IF c = q THEN <<"\\", q>>
  ELSE IF c = "\n" THEN <<"\\", "n">>
  ELSE IF c = "\t" THEN <<"\\", "t">>
  ELSE IF c = "\r" THEN <<"\\", "r">>
  ELSE <<c>>

\* the escaped characters s[lo..hi], by halves
RECURSIVE ReprBody(_, _, _, _)
ReprBody(s, q, lo, hi) ==
  IF lo > hi THEN <<>>
  ELSE IF lo = hi THEN ReprChar(s[lo], q)
  ELSE LET mid == (lo + hi) \div 2
       IN  ReprBody(s, q, lo, mid) \o ReprBody(s, q, mid + 1, hi)

repr(s) ==
  <<ReprQuote(s)>> \o ReprBody(s, ReprQuote(s), 1, Len(s)) \o <<ReprQuote(s)>>

(***************************************************************************)
(* Initial file contents: concatenations of at most MaxPieces pieces.      *)
(***************************************************************************)
\* filler with the characters repr escapes
PadChars == <<"x", "'", " ", "\"", "\n", "\\", "y", "<backtick>">>

Pad == [i \in 1..PadLen |-> PadChars[((i - 1) % Len(PadChars)) + 1]]

\* the pattern without its closing backtick: followed by the pattern, it
\* makes two occurrences that share a backtick
OldOpen == SubSeq(old, 1, Len(old) - 1)

Pieces == {old, OldOpen, marker, Pad}

RECURSIVE Texts(_)
Texts(n) ==
  IF n = 0
    THEN {<<>>}
    ELSE LET shorter == Texts(n - 1)
         IN  shorter \cup {t \o piece : t \in shorter, piece \in Pieces}

(***************************************************************************)
(* State.                                                                  *)
(***************************************************************************)
VARIABLES
  fmode,    \* the target path: "missing", "noread", "readonly" or "rw"
  disk,     \* the text stored at the target path
  pc,       \* the statement the process executes next, or how it ended
  content,  \* the script's variable content
  idx,      \* the script's variable idx
  out,      \* the lines printed on standard output by the current run
  status,   \* <<>> while running, <<n>> once the process exited with n
  handle,   \* the open file object f: "none", "r" or "w"
  wrote,    \* the current run has opened the file for writing
  before,   \* the text on disk when the current run started
  orig,     \* the text on disk before the first run
  run,      \* number of the current run
  hist      \* how the earlier runs ended

vars ==
  <<fmode, disk, pc, content, idx, out, status, handle, wrote, before, orig,
    run, hist>>

Terminal == {"exited", "raised", "killed"}

Line(text) == [text |-> text, data |-> <<>>]

DataLine(data) == [text |-> "", data |-> data]

Init ==
  /\ fmode \in {"missing", "noread", "readonly", "rw"}
  /\ disk \in (IF fmode = "missing" THEN {<<>>} ELSE Texts(MaxPieces))
  /\ pc = "open_r"
  /\ content = <<>>
  /\ idx = -1
  /\ out = <<>>
  /\ status = <<>>
  /\ handle = "none"
  /\ wrote = FALSE
  /\ before = disk
  /\ orig = disk
  /\ run = 1
  /\ hist = <<>>

\* faulty variant of Raise: the error is swallowed and the status is 0
RaiseStatusZero ==
  /\ pc' = "raised"
  /\ status' = <<ExitSuccess>>
  /\ handle' = "none"

\* an exception nobody catches: the with block closes f, the interpreter
\* exits
Raise ==
  /\ pc' = "raised"
  /\ status' = <<UncaughtStatus>>
  /\ handle' = "none"

\* line 6: with open(p, 'r') as f
OpenRead ==
  /\ pc = "open_r"
  /\ fmode \in {"readonly", "rw"}
  /\ handle' = "r"
  /\ pc' = "read"
  /\ UNCHANGED <<fmode, disk, content, idx, out, status, wrote, before, orig,
                 run, hist>>

\* faulty variant of OpenReadFails: the open creates the file and goes on
OpenReadFailsCreates ==
  /\ pc = "open_r"
  /\ fmode \in {"missing", "noread"}
  /\ fmode' = "rw"
  /\ handle' = "r"
  /\ pc' = "read"
  /\ UNCHANGED <<disk, content, idx, out, status, wrote, before, orig, run,
                 hist>>

OpenReadFails ==
  /\ pc = "open_r"
  /\ fmode \in {"missing", "noread"}
  /\ Raise
  /\ UNCHANGED <<fmode, disk, content, idx, out, wrote, before, orig, run,
                 hist>>

\* line 7: content = f.read(), then the with block closes f
Read ==
  /\ pc = "read"
  /\ content' = disk
  /\ handle' = "none"
  /\ pc' = "test"
  /\ UNCHANGED <<fmode, disk, idx, out, status, wrote, before, orig, run,
                 hist>>

ReadFails ==
  /\ pc = "read"
  /\ Raise
  /\ UNCHANGED <<fmode, disk, content, idx, out, wrote, before, orig, run,
                 hist>>

\* faulty variant of Test: if 'react-native-xcode' in content
TestMarker ==
  /\ pc = "test"
  /\ pc' = IF In(marker, content) THEN "replace" ELSE "report_nf"
  /\ UNCHANGED <<fmode, disk, content, idx, out, status, handle, wrote,
                 before, orig, run, hist>>

\* line 15: if old in content
Test ==
  /\ pc = "test"
  /\ pc' = IF In(old, content) THEN "replace" ELSE "report_nf"
  /\ UNCHANGED <<fmode, disk, content, idx, out, status, handle, wrote,
                 before, orig, run, hist>>

\* line 16: content = content.replace(old, new)
Replace ==
  /\ pc = "replace"
  /\ content' = replace(content, old, new)
  /\ pc' = "open_w"
  /\ UNCHANGED <<fmode, disk, idx, out, status, handle, wrote, before, orig,
                 run, hist>>

\* faulty variant of OpenWrite: open(p, 'r+'), which does not truncate
OpenWriteNoTruncate ==
  /\ pc = "open_w"
  /\ fmode = "rw"
  /\ handle' = "w"
  /\ wrote' = TRUE
  /\ pc' = "write"
  /\ UNCHANGED <<fmode, disk, content, idx, out, status, before, orig, run,
                 hist>>

\* line 17: with open(p, 'w') as f truncates the file
OpenWrite ==
  /\ pc = "open_w"
  /\ fmode = "rw"
  /\ disk' = <<>>
  /\ handle' = "w"
  /\ wrote' = TRUE
  /\ pc' = "write"
  /\ UNCHANGED <<fmode, content, idx, out, status, before, orig, run, hist>>

OpenWriteFails ==
  /\ pc = "open_w"
  /\ fmode # "rw"
  /\ Raise
  /\ UNCHANGED <<fmode, disk, content, idx, out, wrote, before, orig, run,
                 hist>>

\* line 18: f.write(content); the buffered text reaches the disk in flushes
Flush ==
  /\ pc = "write"
  /\ Len(disk) < Len(content)
  /\ disk' = SubSeq(content, 1, min(Len(disk) + FlushSize, Len(content)))
  /\ UNCHANGED <<fmode, pc, content, idx, out, status, handle, wrote, before,
                 orig, run, hist>>

\* faulty variant of WriteFails: the error is swallowed, the run goes on
WriteFailsSwallowed ==
  /\ pc = "write"
  /\ Len(disk) < Len(content)
  /\ handle' = "none"
  /\ pc' = "report_ok"
  /\ UNCHANGED <<fmode, disk, content, idx, out, status, wrote, before, orig,
                 run, hist>>

WriteFails ==
  /\ pc = "write"
  /\ Len(disk) < Len(content)
  /\ Raise
  /\ UNCHANGED <<fmode, disk, content, idx, out, wrote, before, orig, run,
                 hist>>

\* line 18, end of the with block: everything is flushed, f is closed
CloseWrite ==
  /\ pc = "write"
  /\ Len(disk) = Len(content)
  /\ handle' = "none"
  /\ pc' = "report_ok"
  /\ UNCHANGED <<fmode, disk, content, idx, out, status, wrote, before, orig,
                 run, hist>>

\* line 19: print('PATCHED successfully')
PrintPatched ==
  /\ pc = "report_ok"
  /\ out' = Append(out, Line("PATCHED successfully"))
  /\ pc' = "end"
  /\ UNCHANGED <<fmode, disk, content, idx, status, handle, wrote, before,
                 orig, run, hist>>

\* the module body ends after line 19
EndOfScript ==
  /\ pc = "end"
  /\ pc' = "exited"
  /\ status' = <<ExitSuccess>>
  /\ UNCHANGED <<fmode, disk, content, idx, out, handle, wrote, before, orig,
                 run, hist>>

\* line 21: print('Pattern not found, dumping context...')
PrintNotFound ==
  /\ pc = "report_nf"
  /\ out' = Append(out, Line("Pattern not found, dumping context..."))
  /\ pc' = "find"
  /\ UNCHANGED <<fmode, disk, content, idx, status, handle, wrote, before,
                 orig, run, hist>>

\* lines 22-23: idx = content.find('react-native-xcode'); if idx >= 0
FindMarker ==
  /\ pc = "find"
  /\ idx' = find(content, marker)
  /\ pc' = IF idx' >= 0 THEN "context" ELSE "absent"
  /\ UNCHANGED <<fmode, disk, content, out, status, handle, wrote, before,
                 orig, run, hist>>

\* faulty variant of Context: content[idx-150:idx+200]
ContextNoClamp(s, i) == Slice(s, i - ContextBefore, i + ContextAfter)

\* line 24: content[max(0,idx-150):idx+200]
Context(s, i) == Slice(s, max(0, i - ContextBefore), i + ContextAfter)

\* line 24: print(repr(content[max(0,idx-150):idx+200]))
PrintContext ==
  /\ pc = "context"
  /\ out' = Append(out, DataLine(repr(Context(content, idx))))
  /\ pc' = "exit"
  /\ UNCHANGED <<fmode, disk, content, idx, status, handle, wrote, before,
                 orig, run, hist>>

\* line 26: print('react-native-xcode not found in file at all')
PrintAbsent ==
  /\ pc = "absent"
  /\ out' = Append(out, Line("react-native-xcode not found in file at all"))
  /\ pc' = "exit"
  /\ UNCHANGED <<fmode, disk, content, idx, status, handle, wrote, before,
                 orig, run, hist>>

\* faulty variant of Exit: sys.exit(0)
ExitZero ==
  /\ pc = "exit"
  /\ pc' = "exited"
  /\ status' = <<ExitSuccess>>
  /\ UNCHANGED <<fmode, disk, content, idx, out, handle, wrote, before, orig,
                 run, hist>>

\* line 27: sys.exit(1)
Exit ==
  /\ pc = "exit"
  /\ pc' = "exited"
  /\ status' = <<ExitFailure>>
  /\ UNCHANGED <<fmode, disk, content, idx, out, handle, wrote, before, orig,
                 run, hist>>

\* the process is killed between two steps: its memory is gone, the system
\* closes its file, what reached the disk stays
Interrupt ==
  /\ pc \notin Terminal
  /\ pc' = "killed"
  /\ content' = <<>>
  /\ idx' = -1
  /\ handle' = "none"
  /\ UNCHANGED <<fmode, disk, out, status, wrote, before, orig, run, hist>>

\* the script is started again on the same file
Rerun ==
  /\ pc \in Terminal
  /\ run < MaxRuns
  /\ hist' = Append(hist, [end |-> pc, status |-> status, wrote |-> wrote])
  /\ run' = run + 1
  /\ before' = disk
  /\ pc' = "open_r"
  /\ content' = <<>>
  /\ idx' = -1
  /\ out' = <<>>
  /\ status' = <<>>
  /\ handle' = "none"
  /\ wrote' = FALSE
  /\ UNCHANGED <<fmode, disk, orig>>

Next ==
  \/ OpenRead
  \/ OpenReadFails
  \/ Read
  \/ ReadFails
  \/ Test
  \/ Replace
  \/ OpenWrite
  \/ OpenWriteFails
  \/ Flush
  \/ WriteFails
  \/ CloseWrite
  \/ PrintPatched
  \/ EndOfScript
  \/ PrintNotFound
  \/ FindMarker
  \/ PrintContext
  \/ PrintAbsent
  \/ Exit
  \/ Interrupt
  \/ Rerun

Spec == Init /\ [][Next]_vars

(***************************************************************************)
(* Properties.                                                             *)
(***************************************************************************)
Occurrences(s, sub) == {i \in 0..(Len(s) - Len(sub)) : OccursAt(s, sub, i)}

Patched == Line("PATCHED successfully")

NotFound == Line("Pattern not found, dumping context...")

Absent == Line("react-native-xcode not found in file at all")

Printed(line) == \E k \in 1..Len(out) : out[k] = line

\* the current run found no pattern and got to its last statement
NotFoundRun == pc \in {"exit", "exited"} /\ ~In(old, before)

\* s with the text at 0-based offsets i .. i+Len(o)-1 replaced by n
Splice(s, i, o, n) ==
  SubSeq(s, 1, i) \o n \o SubSeq(s, i + Len(o) + 1, Len(s))

C2_NoPartialModification ==
  (disk # before \/ wrote \/ handle = "w") => In(old, before)

C2_Witness ==
  /\ ~In(old, before)
  /\ In(marker, before)
  /\ pc = "exited"
  /\ fmode = "rw"

\* C3: a run that ends without an I/O failure has exit status 0 exactly when
\* the pattern occurred in what it read, and then it has overwritten the
\* file with the patched text; otherwise the status is 1.  Either way it has
\* printed at least one line.
C3_ExitStatusTracksPatch ==
  pc = "exited" =>
    /\ (status = <<0>>) <=> In(old, before)
    /\ In(old, before) => (wrote /\ disk = replace(before, old, new))
    /\ ~In(old, before) => status = <<1>>
    /\ Len(out) >= 1

C3_Witness ==
  /\ pc = "exited"
  /\ status = <<1>>
  /\ Len(out) = 2
  /\ before # <<>>

HistoryClean == \A k \in 1..Len(hist) : hist[k].end = "exited"

WritingRuns == Cardinality({k \in 1..Len(hist) : hist[k].wrote})
                 + (IF wrote THEN 1 ELSE 0)

\* C4: on a file that held the pattern, in consecutive runs that meet no
\* I/O failure only the first succeeds and writes: each later run leaves the
\* file as the first run wrote it and ends with the failure status.  At
\* most one run of a sequence modifies the file.
C4_IdempotenceAcrossRuns ==
  /\ WritingRuns <= 1
  /\ (run >= 2 /\ HistoryClean /\ In(old, orig)) =>
       /\ hist[1].status = <<0>> /\ hist[1].wrote
       /\ \A k \in 2..Len(hist) : hist[k].status = <<1>> /\ ~hist[k].wrote
       /\ ~wrote
       /\ disk = before
       /\ disk = replace(orig, old, new)
       /\ pc = "exited" => (status = <<1>> /\ out[1] = NotFound)

C4_Witness ==
  /\ run >= 2
  /\ HistoryClean
  /\ hist[1].status = <<0>>
  /\ pc = "exited"
  /\ status = <<1>>

\* two occurrences of sub in s that share a character
Overlapping(s, sub) ==
  \E i, j \in Occurrences(s, sub) : i < j /\ j < i + Len(sub)

\* C5: after a successful run the file holds no occurrence of the pattern,
\* whether the original held one, several or overlapping ones.
C5_EveryOccurrenceReplaced ==
  (pc = "exited" /\ status = <<0>>) => ~In(old, disk)

C5_Witness ==
  /\ pc = "exited"
  /\ status = <<0>>
  /\ Overlapping(before, old)
  /\ Cardinality(Occurrences(before, old)) >= 3

\* the window the diagnostic is about: from 150 characters before the
\* marker's first occurrence at 0-based i, or the start of the text, to 200
\* characters after i, or the end of the text
Window(s, i) ==
  SubSeq(s, (IF i < 150 THEN 0 ELSE i - 150) + 1,
            IF i + 200 > Len(s) THEN Len(s) ELSE i + 200)

\* w, the window of s around i, holds the marker, starts at the start of s
\* when i < 150 and has at most 350 characters
WindowFacts(s, i, w) ==
  /\ Len(w) <= 350
  /\ OccursAt(w, marker, IF i < 150 THEN i ELSE 150)
  /\ i < 150 => w = SubSeq(s, 1, Len(w))

\* C6: on a run that found no pattern, 'Pattern not found, dumping
\* context...' is followed by exactly one diagnostic.  With the marker in the
\* text it is the repr() of the window content[max(0, idx-150) : idx+200]
\* around the marker's first occurrence: the window in quotes, with
\* backslashes, that quote and control characters escaped.  The window holds
\* the whole marker, starts at the start of the text when idx < 150 and is at
\* most 350 characters long.  Without the marker the diagnostic says that the
\* marker is not in the file at all.  The exit status is 1.
C6_DiagnosticFallback ==
  NotFoundRun =>
    /\ Len(out) = 2
    /\ out[1] = NotFound
    /\ LET i == find(before, marker)
           w == Window(before, i)
       IN  IF i >= 0
             THEN /\ WindowFacts(before, i, w)
                  /\ out[2].text = ""
                  /\ out[2].data = repr(w)
                  /\ Len(out[2].data) >= Len(w) + 2
                  /\ out[2].data[1] \in {"'", "\""}
                  /\ out[2].data[Len(out[2].data)] = out[2].data[1]
             ELSE out[2] = Absent
    /\ pc = "exited" => status = <<1>>

C6_Witness ==
  /\ NotFoundRun
  /\ pc = "exited"
  /\ idx > 0
  /\ idx < 150
  /\ Len(before) > idx + 200

\* C6 as claimed: the diagnostic printed is the window itself.
C6_OutputIsTheSlice ==
  (NotFoundRun /\ In(marker, before)) =>
    out[2].data = Window(before, find(before, marker))

\* C7: when the file is missing or unreadable the run ends at the first
\* open with an uncaught error: non-zero status, nothing printed, the write
\* never reached, the path neither created nor modified.
C7_MissingFile ==
  /\ [](fmode \in {"missing", "noread"} =>
          /\ pc \in {"open_r", "raised", "killed"}
          /\ pc = "raised" => (status # <<0>> /\ Len(status) = 1)
          /\ out = <<>>
          /\ ~wrote
          /\ handle = "none"
          /\ disk = before)
  /\ [][fmode' = fmode]_vars

C7_Witness ==
  /\ fmode = "missing"
  /\ pc = "raised"
  /\ status = <<1>>

\* an earlier run, or the current one once it has ended
Ended == [k \in 1..Len(hist) |-> hist[k]]
           \o (IF pc \in Terminal
                 THEN <<[end |-> pc, status |-> status, wrote |-> wrote]>>
                 ELSE <<>>)

\* C8: the exit status of a run that found no pattern is 1: it differs from
\* the status of a successful run and is the status with which a run ends
\* on an uncaught I/O error.
C8_FailureStatus ==
  /\ (pc = "exited" /\ ~In(old, before)) => status = <<1>>
  /\ \A j, k \in 1..Len(Ended) :
       (Ended[j].end = "exited" /\ Ended[j].status # <<0>>) =>
         /\ Ended[k].end = "raised" => Ended[k].status = Ended[j].status
         /\ (Ended[k].end = "exited" /\ Ended[k].wrote) =>
              Ended[k].status # Ended[j].status

C8_Witness ==
  /\ Len(Ended) = 2
  /\ Ended[1].end = "raised"
  /\ Ended[2].end = "exited"
  /\ Ended[2].status = <<1>>

\* C8 as claimed: the status of a run that found no pattern differs from
\* the status of every run that ended on an uncaught I/O error.
C8_DistinguishedStatus ==
  \A j, k \in 1..Len(Ended) :
    (Ended[j].end = "exited" /\ ~Ended[j].wrote /\ Ended[k].end = "raised") =>
      Ended[k].status # Ended[j].status

IsPrefix(s, t) == Len(s) <= Len(t) /\ s = SubSeq(t, 1, Len(s))

\* C9: between the truncating open and the end of the write the file holds
\* a proper prefix of the patched text, which is neither the original nor
\* the patched text, and a process killed there leaves the file like that.
C9_NonAtomicOverwrite ==
  /\ []((pc = "write" /\ Len(disk) < Len(content)) =>
          /\ IsPrefix(disk, replace(before, old, new))
          /\ disk # before
          /\ disk # replace(before, old, new))
  /\ [][(pc = "write" /\ pc' = "killed") => disk' = disk]_vars

C9_Witness ==
  /\ pc = "killed"
  /\ wrote
  /\ disk # before
  /\ disk # <<>>
  /\ Cardinality(Occurrences(before, old)) = 1
  /\ disk # Splice(before, find(before, old), old, new)

\* C10: in every state where 'PATCHED successfully' has been printed the
\* file has been written in full with the patched text and closed; a run
\* whose open for writing or write fails ends with a non-zero status and
\* never prints it.
C10_SuccessAfterWrite ==
  /\ Printed(Patched) =>
       /\ wrote
       /\ handle = "none"
       /\ pc \in {"end", "exited", "killed"}
       /\ disk = replace(before, old, new)
  /\ pc = "raised" => (status # <<0>> /\ ~Printed(Patched))

C10_Witness ==
  /\ Printed(Patched)
  /\ pc = "exited"
  /\ Len(disk) > FlushSize

=============================================================================
